---- MODULE Spec2Model ----
(***************************************************************************)
(* conman: the managed-file metadata store, its cache snapshot and the     *)
(* reconciliation that runs at the start of every invocation.              *)
(*                                                                         *)
(* Paths are atoms: the home-directory placeholder substitution of the     *)
(* persisted documents is not part of this development.                    *)
(***************************************************************************)
EXTENDS Integers, Sequences, FiniteSets, TLC

(* ------------------------------ bounds --------------------------------- *)

\* seconds of the wall clock that the model distinguishes (0..MaxClock)
MaxClock == 1

\* invocations of the program that a behaviour follows
MaxRuns == 3

\* longest batch of paths given to one add / remove command
MaxBatch == 2

\* longest Store that a command is allowed to produce
MaxStore == 3

\* longest Store / Snapshot drawn as input of the verdict function
MaxDoc == 2

(* ------------------------------ universe ------------------------------- *)

\* system paths the user works with: two files of the same name
SysPaths == {"/a/x", "/b/x"}

\* PathBuf::file_name of a system path
FileName(p) == IF p \in {"/a/x", "/b/x"} THEN "x" ELSE "y"

Names == {FileName(p) : p \in SysPaths}

\* a mirror path is <repo>/<timestamp>-<file name>
MirrorPaths == (0..MaxClock) \X Names

\* no file at a path
Absent == 0

\* the content the system files start with, and what an edit writes
Original == 1
Edited == 2
Contents == {Original, Edited}

\* the passphrases a configuration may hold: the one the mirror files are
\* encrypted with, and another
Passphrases == {"p1", "p2"}
EncryptionPassphrase == "p1"

\* age ciphertext of a content (passphrase fixed by the configuration)
Encrypt(c) == c + 10

Branches == {"main", "dev"}

Choices == {"skip", "delete", "manage"}

\* a persisted document: absent, or the list of entries it holds
NoDoc == [exists |-> FALSE, files |-> <<>>]
Doc(files) == [exists |-> TRUE, files |-> files]

\* a working tree without mirror files
NoFiles == [rp \in MirrorPaths |-> Absent]

\* a commit: the Store document and the mirror files of its tree
Commit(doc, files) == [born |-> TRUE, doc |-> doc, files |-> files]

\* a branch that does not exist
NoBranch == [born |-> FALSE, doc |-> NoDoc, files |-> NoFiles]

VARIABLES
    store,      \* the Metadata Store document in the mirror working tree
    cache,      \* the Cache Snapshot document
    sys,        \* content of the system files
    repo,       \* content of the mirror files in the working tree
    heads,      \* the commit each branch of the mirror repository points to
    branch,     \* the branch that is checked out (and configured as upstream)
    clock,      \* SystemTime::now() in seconds
    verdict,    \* the verdict of the latest reconciliation
    resolved,   \* the dangling entries of the latest resolution, each with its choice
    dropped,    \* the system paths that the latest checkout or pull dropped
    trace,      \* the steps the current invocation of main has taken
    runs,       \* the number of invocations so far
    call,       \* a function of the program taken on its own: which, and its arguments
    ret,        \* what that function returned
    origin      \* the commit that was last pushed to the upstream branch

vars == <<store, cache, sys, repo, heads, branch, clock, verdict, resolved, dropped,
          trace, runs, call, ret, origin>>

\* no function is looked at on its own
NoCall == [fn |-> "none"]
NoReturn == [returned |-> FALSE]

(* --------------------------- file.rs: Store ---------------------------- *)

FileData(from, to, encrypt) ==
    [system_path |-> from, repo_path |-> to, encrypted |-> encrypt]

SystemPathsOf(files) == {files[i].system_path : i \in 1..Len(files)}

\* a scan that never finds the path
never_managed(files, from) == FALSE

\* the linear scan of is_already_managed
is_already_managed(files, from) ==
    \E i \in 1..Len(files) : files[i].system_path = from

\* a push that also gives the older entries the flag of the new one
add_file_with_flag_for_all(files, fd) ==
    Append([i \in 1..Len(files) |-> [files[i] EXCEPT !.encrypted = fd.encrypted]],
           fd)

\* add_file_to_metadata: push
add_file_to_metadata(files, fd) == Append(files, fd)

\* iter().position(..): index of the first entry with that system path, 0 for None
position(files, path) ==
    IF is_already_managed(files, path)
    THEN CHOOSE i \in 1..Len(files) :
            /\ files[i].system_path = path
            /\ \A j \in 1..(i - 1) : files[j].system_path # path
    ELSE 0

\* Vec::remove(index)
remove_index(files, i) == SubSeq(files, 1, i - 1) \o SubSeq(files, i + 1, Len(files))

\* Paths::repo_local_file_path: <timestamp>-<file name>
repo_local_file_path(on_disk_path) == <<clock, FileName(on_disk_path)>>

\* a copy that writes nothing
copy_nothing(from_files, from, to_files, to) == to_files

\* copy_unencrypted: std::fs::copy, the file at to gets the bytes of the file at from
copy_unencrypted(from_files, from, to_files, to) ==
    [to_files EXCEPT ![to] = from_files[from]]

\* a copy to the mirror that encrypts whatever the entry says
copy_managed_file_encrypting(mirror, sysfiles, fd) ==
    [mirror EXCEPT ![fd.repo_path] = Encrypt(sysfiles[fd.system_path])]

\* copy_managed_file: system file -> mirror file, encrypted when the entry says so
copy_managed_file(mirror, sysfiles, fd) ==
    IF fd.encrypted
    THEN [mirror EXCEPT ![fd.repo_path] = Encrypt(sysfiles[fd.system_path])]
    ELSE copy_unencrypted(sysfiles, fd.system_path, mirror, fd.repo_path)

\* read_metadata: an absent document reads as the empty default
read_metadata(doc) == IF doc.exists THEN doc.files ELSE <<>>

\* the entries of the Store and of the Snapshot as the program reads them
Store == read_metadata(store)
Snapshot == read_metadata(cache)

(* ------------------------ file.rs: reconciliation ---------------------- *)

\* a comparison of the mirror paths where the system paths are meant
RECURSIVE dangling_by_repo_path(_, _)
dangling_by_repo_path(ours, theirs) ==
    IF theirs = <<>> THEN <<>>
    ELSE LET rest == dangling_by_repo_path(ours, Tail(theirs))
         IN IF \E i \in 1..Len(ours) : ours[i].repo_path = Head(theirs).repo_path
            THEN rest
            ELSE <<Head(theirs)>> \o rest

\* dangling_files: the Snapshot entries that no Store entry matches, in Snapshot order
RECURSIVE dangling_files(_, _)
dangling_files(ours, theirs) ==
    IF theirs = <<>> THEN <<>>
    ELSE LET rest == dangling_files(ours, Tail(theirs))
         IN IF \E i \in 1..Len(ours) : ours[i].system_path = Head(theirs).system_path
            THEN rest
            ELSE <<Head(theirs)>> \o rest

FullPopulate == [kind |-> "FullPopulate", dangling |-> <<>>]
DoNothing == [kind |-> "DoNothing", dangling |-> <<>>]
HandleDangling(d) == [kind |-> "HandleDangling", dangling |-> d]
NoVerdict == [kind |-> "None", dangling |-> <<>>]

verify_cache(ours, snapshot) ==
    IF snapshot = <<>> /\ ours # <<>> THEN FullPopulate
    ELSE IF snapshot = <<>> /\ ours = <<>> THEN DoNothing
    ELSE LET d == dangling_files(ours, snapshot)
         IN IF d = <<>> THEN DoNothing ELSE HandleDangling(d)

\* a Snapshot that is written once and then left as it was
write_cache_kept(metadata, old) == IF old.exists THEN old ELSE Doc(metadata)

\* write_cache: the Snapshot document becomes the serialized metadata
write_cache(metadata, old) == Doc(metadata)

\* a Store document that loses the entries it is given
persist_nothing(metadata) == Doc(<<>>)

\* persist_metadata: the Store document becomes the serialized metadata
persist_metadata(metadata) == Doc(metadata)

(* ----------------------------- main.rs --------------------------------- *)

\* a main that dispatches the command before it verifies the cache
MainOrderCommandFirst == <<"command", "reconcile">>

\* what main does, in order, once the repository is open
MainOrder == <<"reconcile", "command">>

\* one step of an invocation: what ran and how it ended
Event(step, op, result) == [step |-> step, op |-> op, result |-> result]

\* no invocation is in progress: none has begun, or the latest one has run
\* through, has panicked, or was Command::Init
Idle ==
    IF trace = <<>> THEN TRUE
    ELSE IF Len(trace) = Len(MainOrder) THEN TRUE
    ELSE trace[Len(trace)].result = "panic" \/ trace[Len(trace)].step = "init"

\* the step main takes next
NextStep == IF Idle THEN MainOrder[1] ELSE MainOrder[Len(trace) + 1]

\* a new invocation begins with the step when none is in progress
Invoke ==
    IF Idle
    THEN runs < MaxRuns /\ runs' = runs + 1
    ELSE runs' = runs

\* main takes a step
Step(name, op, result) ==
    /\ NextStep = name
    /\ Invoke
    /\ trace' = IF Idle THEN <<Event(name, op, result)>>
                ELSE Append(trace, Event(name, op, result))

\* the history of the latest resolution and of the latest drop lasts as long
\* as neither document changes
KeepResolved == resolved' = IF store' = store /\ cache' = cache THEN resolved ELSE <<>>
KeepDropped == dropped' = IF store' = store /\ cache' = cache THEN dropped ELSE {}

(* ------------------- conman.rs: verify_local_file_cache ----------------- *)

\* a "manage" that runs the add pipeline: a fresh mirror path for the entry
managed_with_new_path(file) ==
    FileData(file.system_path, repo_local_file_path(file.system_path), file.encrypted)

\* the entry that "manage" copies and re-adds: the dangling entry as the Snapshot has it
managed_file(file) == file

\* the loop over the dangling entries; ok is FALSE when a step returned an error
RECURSIVE resolve_dangling(_, _, _, _, _)
resolve_dangling(dangling, choice, metadata, sysfiles, mirror) ==
    IF dangling = <<>>
    THEN [ok |-> TRUE, metadata |-> metadata, sys |-> sysfiles, repo |-> mirror]
    ELSE LET file == Head(dangling)
             failed == [ok |-> FALSE, metadata |-> metadata, sys |-> sysfiles, repo |-> mirror]
         IN CASE Head(choice) = "delete" ->
                   IF sysfiles[file.system_path] = Absent THEN failed
                   ELSE resolve_dangling(Tail(dangling), Tail(choice), metadata,
                            [sysfiles EXCEPT ![file.system_path] = Absent], mirror)
              [] Head(choice) = "manage" ->
                   IF sysfiles[file.system_path] = Absent THEN failed
                   ELSE resolve_dangling(Tail(dangling), Tail(choice),
                            add_file_to_metadata(metadata, managed_file(file)), sysfiles,
                            copy_managed_file(mirror, sysfiles, managed_file(file)))
              [] OTHER ->
                   resolve_dangling(Tail(dangling), Tail(choice), metadata, sysfiles, mirror)

\* the entries of a resolution paired with the choice made for each
Resolution(dangling, choice) ==
    [i \in 1..Len(dangling) |-> [file |-> dangling[i], choice |-> choice[i]]]

VerifyFullPopulate ==
    /\ UNCHANGED <<call, ret, origin>>
    /\ verify_cache(Store, Snapshot).kind = "FullPopulate"
    /\ Step("reconcile", "FullPopulate", "ok")
    /\ verdict' = FullPopulate
    /\ cache' = write_cache(Store, cache)
    /\ resolved' = <<>>
    /\ dropped' = {}
    /\ UNCHANGED <<store, sys, repo, heads, branch, clock>>

VerifyDoNothing ==
    /\ UNCHANGED <<call, ret, origin>>
    /\ verify_cache(Store, Snapshot).kind = "DoNothing"
    /\ Step("reconcile", "DoNothing", "ok")
    /\ verdict' = DoNothing
    /\ resolved' = <<>>
    /\ dropped' = {}
    /\ UNCHANGED <<store, cache, sys, repo, heads, branch, clock>>

VerifyHandleDangling ==
    /\ UNCHANGED <<call, ret, origin>>
    /\ verify_cache(Store, Snapshot).kind = "HandleDangling"
    /\ LET dangling == verify_cache(Store, Snapshot).dangling
       IN \E choice \in [1..Len(dangling) -> Choices] :
            LET r == resolve_dangling(dangling, choice, Store, sys, repo)
            IN /\ Len(r.metadata) <= MaxStore
               /\ verdict' = HandleDangling(dangling)
               /\ sys' = r.sys
               /\ repo' = r.repo
               /\ dropped' = {}
               /\ IF r.ok
                  THEN /\ Step("reconcile", "HandleDangling", "ok")
                       /\ store' = persist_metadata(r.metadata)
                       /\ cache' = write_cache(r.metadata, cache)
                       /\ resolved' = Resolution(dangling, choice)
                  ELSE /\ Step("reconcile", "HandleDangling", "panic")
                       /\ resolved' = <<>>
                       /\ UNCHANGED <<store, cache>>
    /\ UNCHANGED <<heads, branch, clock>>

\* Command::Init returns before the repository is opened
Init_Command ==
    /\ UNCHANGED <<call, ret, origin>>
    /\ Idle
    /\ Invoke
    /\ trace' = <<Event("init", "init", "ok")>>
    /\ UNCHANGED <<store, cache, sys, repo, heads, branch, clock, verdict>>
    /\ KeepResolved
    /\ KeepDropped

(* --------------------------- ops/add.rs -------------------------------- *)

\* the batches of paths a command line can name
Batches == UNION {[1..n -> SysPaths] : n \in 1..MaxBatch}

\* the loop of AddOp::run over the batch: "done" when it ran through, "return"
\* when it hit a managed path, "error" when a path could not be canonicalized
\* a loop that skips a managed path and goes on to persist
RECURSIVE add_loop_continue(_, _, _, _)
add_loop_continue(sources, metadata, mirror, encrypt) ==
    IF sources = <<>>
    THEN [result |-> "done", metadata |-> metadata, repo |-> mirror]
    ELSE LET source_path == Head(sources)
         IN IF sys[source_path] = Absent
            THEN [result |-> "error", metadata |-> metadata, repo |-> mirror]
            ELSE IF is_already_managed(metadata, source_path)
            THEN add_loop_continue(Tail(sources), metadata, mirror, encrypt)
            ELSE LET file_data == FileData(source_path,
                                           repo_local_file_path(source_path), encrypt)
                 IN add_loop_continue(Tail(sources),
                                      add_file_to_metadata(metadata, file_data),
                                      copy_managed_file(mirror, sys, file_data), encrypt)

RECURSIVE add_loop(_, _, _, _)
add_loop(sources, metadata, mirror, encrypt) ==
    IF sources = <<>>
    THEN [result |-> "done", metadata |-> metadata, repo |-> mirror]
    ELSE LET source_path == Head(sources)
         IN IF sys[source_path] = Absent
            THEN [result |-> "error", metadata |-> metadata, repo |-> mirror]
            ELSE IF is_already_managed(metadata, source_path)
            THEN [result |-> "return", metadata |-> metadata, repo |-> mirror]
            ELSE LET file_data == FileData(source_path,
                                           repo_local_file_path(source_path), encrypt)
                 IN add_loop(Tail(sources), add_file_to_metadata(metadata, file_data),
                             copy_managed_file(mirror, sys, file_data), encrypt)

\* an add that persists what it has gathered also when the loop failed
AddPersistsOnError(files, encrypt) ==
    /\ UNCHANGED <<call, ret, origin>>
    /\ LET r == add_loop(files, Store, repo, encrypt)
       IN /\ Step("command", "add", r.result)
          /\ repo' = r.repo
          /\ IF r.result # "return"
             THEN /\ store' = persist_metadata(r.metadata)
                  /\ cache' = write_cache(r.metadata, cache)
             ELSE UNCHANGED <<store, cache>>
    /\ UNCHANGED <<sys, heads, branch, clock, verdict>>
    /\ KeepResolved
    /\ KeepDropped

Add(files, encrypt) ==
    /\ UNCHANGED <<call, ret, origin>>
    /\ LET r == add_loop(files, Store, repo, encrypt)
       IN /\ Step("command", "add", r.result)
          /\ repo' = r.repo
          /\ IF r.result = "done"
             THEN /\ store' = persist_metadata(r.metadata)
                  /\ cache' = write_cache(r.metadata, cache)
             ELSE UNCHANGED <<store, cache>>
    /\ UNCHANGED <<sys, heads, branch, clock, verdict>>
    /\ KeepResolved
    /\ KeepDropped

(* -------------------------- ops/remove.rs ------------------------------ *)

\* the loop of RemoveOp::run: unmanage the path, then delete its mirror file
RECURSIVE remove_loop(_, _, _)
remove_loop(files, metadata, mirror) ==
    IF files = <<>>
    THEN [result |-> "done", metadata |-> metadata, repo |-> mirror]
    ELSE LET index == position(metadata, Head(files))
         IN IF index = 0
            THEN [result |-> "return", metadata |-> metadata, repo |-> mirror]
            ELSE LET removed_metadata == metadata[index]
                 IN IF mirror[removed_metadata.repo_path] = Absent
                    THEN [result |-> "error", metadata |-> metadata, repo |-> mirror]
                    ELSE remove_loop(Tail(files), remove_index(metadata, index),
                            [mirror EXCEPT ![removed_metadata.repo_path] = Absent])

Remove(files) ==
    /\ UNCHANGED <<call, ret, origin>>
    /\ LET r == remove_loop(files, Store, repo)
       IN /\ Step("command", "remove", r.result)
          /\ repo' = r.repo
          /\ IF r.result = "done"
             THEN /\ store' = persist_metadata(r.metadata)
                  /\ cache' = write_cache(r.metadata, cache)
             ELSE UNCHANGED <<store, cache>>
    /\ UNCHANGED <<sys, heads, branch, clock, verdict>>
    /\ KeepResolved
    /\ KeepDropped

\* conman::remove: the same loop, and the Store alone is written
ConmanRemove(files) ==
    /\ UNCHANGED <<call, ret, origin>>
    /\ LET r == remove_loop(files, Store, repo)
       IN /\ Step("command", "conman_remove", r.result)
          /\ repo' = r.repo
          /\ IF r.result = "done"
             THEN store' = persist_metadata(r.metadata)
             ELSE UNCHANGED store
    /\ UNCHANGED cache
    /\ UNCHANGED <<sys, heads, branch, clock, verdict>>
    /\ KeepResolved
    /\ KeepDropped

(* ------------------------------ git.rs --------------------------------- *)

\* the mirror paths in the order the repository reports them
NameOrder == <<"x">>
PathOrder ==
    [k \in 1..((MaxClock + 1) * Len(NameOrder)) |->
        <<(k - 1) \div Len(NameOrder), NameOrder[((k - 1) % Len(NameOrder)) + 1]>>]

\* the status of one mirror file: working tree against the commit of HEAD
status_of(rp) ==
    LET committed == heads[branch].files[rp]
        worktree == repo[rp]
    IN IF committed = Absent /\ worktree # Absent THEN "new"
       ELSE IF committed # Absent /\ worktree = Absent THEN "deleted"
       ELSE IF committed # worktree THEN "modified"
       ELSE "none"

\* the Store document, at the root of the working tree (no timestamp in its name)
METADATA_FILE_NAME == "_conman_internal_metadata.toml"
MetadataPath == <<0, METADATA_FILE_NAME>>

\* the status of the Store document: working tree against the commit of HEAD
status_of_metadata ==
    LET committed == heads[branch].doc
    IN IF ~committed.exists /\ store.exists THEN "new"
       ELSE IF committed.exists /\ ~store.exists THEN "deleted"
       ELSE IF committed # store THEN "modified"
       ELSE "none"

\* status_entries: every path of the working tree with its status, the
\* mirror files and then the Store document
status_entries ==
    [k \in 1..Len(PathOrder) |->
        [status |-> status_of(PathOrder[k]), relative_path |-> PathOrder[k]]]
    \o <<[status |-> status_of_metadata, relative_path |-> MetadataPath]>>

\* a list of updates that leaves no changed path out
status_changes_with_metadata ==
    SelectSeq(status_entries, LAMBDA change : change.status # "none")

\* prepare_status_updates: one entry per changed path, the paths that end
\* with METADATA_FILE_NAME omitted
status_changes ==
    SelectSeq(status_entries,
              LAMBDA change : /\ change.status # "none"
                              /\ change.relative_path[2] # METADATA_FILE_NAME)

\* has_changes over all status entries, the Store document included
check_has_unsaved ==
    \E k \in 1..Len(status_entries) : status_entries[k].status # "none"

\* Repo::save: stage everything and commit, unless nothing changed
Save ==
    /\ UNCHANGED <<call, ret, origin>>
    /\ Step("command", "save", IF check_has_unsaved THEN "done" ELSE "return")
    /\ heads' = IF check_has_unsaved
                THEN [heads EXCEPT ![branch] = Commit(store, repo)]
                ELSE heads
    /\ UNCHANGED <<store, cache, sys, repo, branch, clock, verdict>>
    /\ KeepResolved
    /\ KeepDropped

\* Repo::checkout with force: tracked paths follow the target commit, paths
\* tracked by neither commit stay as they are
checkout_doc(target, from, worktree) ==
    IF target.doc.exists THEN target.doc
    ELSE IF from.doc.exists THEN NoDoc
    ELSE worktree

checkout_files(target, from, worktree) ==
    [rp \in MirrorPaths |->
        IF target.files[rp] # Absent THEN target.files[rp]
        ELSE IF from.files[rp] # Absent THEN Absent
        ELSE worktree[rp]]

\* CheckoutOp::run: a branch that does not exist is created at the commit of HEAD
Checkout(branch_name) ==
    /\ UNCHANGED <<call, ret, origin>>
    /\ Step("command", "checkout", "done")
    /\ LET target == IF heads[branch_name].born THEN heads[branch_name] ELSE heads[branch]
       IN IF branch_name = branch
          THEN UNCHANGED <<store, repo, heads, branch, dropped>>
          ELSE /\ store' = checkout_doc(target, heads[branch], store)
               /\ repo' = checkout_files(target, heads[branch], repo)
               /\ heads' = [heads EXCEPT ![branch_name] = target]
               /\ branch' = branch_name
               /\ dropped' = SystemPathsOf(Store) \ SystemPathsOf(read_metadata(store'))
    /\ UNCHANGED <<cache, sys, clock, verdict>>
    /\ KeepResolved

\* what the upstream holds beyond the local commit: one more tracked file,
\* one tracked file less, or one tracked file removed and added again with the
\* other encryption flag (pushed from another machine)
upstream_commits(local) ==
    LET files == read_metadata(local.doc)
    IN {Commit(Doc(Append(files, FileData(p, <<t, FileName(p)>>, FALSE))),
               [local.files EXCEPT ![<<t, FileName(p)>>] = Original]) :
            <<p, t>> \in {q \in SysPaths \X (0..clock) :
                            /\ ~is_already_managed(files, q[1])
                            /\ local.files[<<q[2], FileName(q[1])>>] = Absent}}
       \cup
       {Commit(Doc(remove_index(files, i)),
               [local.files EXCEPT ![files[i].repo_path] = Absent]) :
            i \in 1..Len(files)}
       \cup
       {Commit(Doc(Append(remove_index(files, i),
                          FileData(files[i].system_path, files[i].repo_path,
                                   ~files[i].encrypted))),
               [local.files EXCEPT ![files[i].repo_path] =
                    IF files[i].encrypted THEN Original ELSE Encrypt(Original)]) :
            i \in 1..Len(files)}

\* a pull that fetches and merges whatever the working tree holds
PullOverUnsaved ==
    /\ UNCHANGED <<call, ret, origin>>
    /\ Step("command", "pull", "done")
    /\ \E fetch_commit \in upstream_commits(heads[branch]) \cup {heads[branch]} :
           /\ heads' = [heads EXCEPT ![branch] = fetch_commit]
           /\ store' = fetch_commit.doc
           /\ repo' = fetch_commit.files
           /\ dropped' = SystemPathsOf(Store) \ SystemPathsOf(read_metadata(store'))
    /\ UNCHANGED <<cache, sys, branch, clock, verdict>>
    /\ KeepResolved

\* PullOp::run: nothing with unsaved changes, else fetch and merge
Pull ==
    /\ UNCHANGED <<call, ret, origin>>
    /\ Step("command", "pull", IF check_has_unsaved THEN "return" ELSE "done")
    /\ IF check_has_unsaved
       THEN UNCHANGED <<store, repo, heads, dropped>>
       ELSE \E fetch_commit \in upstream_commits(heads[branch]) \cup {heads[branch]} :
               /\ heads' = [heads EXCEPT ![branch] = fetch_commit]
               /\ store' = fetch_commit.doc
               /\ repo' = fetch_commit.files
               /\ dropped' = SystemPathsOf(Store) \ SystemPathsOf(read_metadata(store'))
    /\ UNCHANGED <<cache, sys, branch, clock, verdict>>
    /\ KeepResolved

\* PushOp::run: nothing with unsaved changes, else the commit of HEAD goes
\* to the upstream branch
Push ==
    /\ UNCHANGED <<call, ret>>
    /\ Step("command", "push", IF check_has_unsaved THEN "return" ELSE "done")
    /\ origin' = IF check_has_unsaved THEN origin ELSE heads[branch]
    /\ UNCHANGED <<store, cache, sys, repo, heads, branch, clock, verdict>>
    /\ KeepResolved
    /\ KeepDropped

(* -------------------------- ops/discard.rs ----------------------------- *)

\* get_file_data_where_repo_path_ends_with: index of the first entry whose
\* mirror path ends with the reported path, 0 for None
index_where_repo_path(metadata, relative_path) ==
    IF \E i \in 1..Len(metadata) : metadata[i].repo_path = relative_path
    THEN CHOOSE i \in 1..Len(metadata) :
            /\ metadata[i].repo_path = relative_path
            /\ \A j \in 1..(i - 1) : metadata[j].repo_path # relative_path
    ELSE 0

\* Repo::reset: the paths of the given changes go back to the commit of HEAD
RECURSIVE reset(_, _)
reset(changes, mirror) ==
    IF changes = <<>> THEN mirror
    ELSE reset(Tail(changes),
               [mirror EXCEPT ![Head(changes).relative_path] =
                    heads[branch].files[Head(changes).relative_path]])

\* age decryption: fails on anything that is not a ciphertext
IsCiphertext(c) == c > 10
Decrypt(c) == c - 10

\* the loop of DiscardOp::run over the confirmed changes, after the reset
RECURSIVE discard_loop(_, _, _, _, _)
discard_loop(changes, metadata, sysfiles, mirror, should_persist) ==
    IF changes = <<>>
    THEN [ok |-> TRUE, metadata |-> metadata, sys |-> sysfiles,
          should_persist |-> should_persist]
    ELSE LET change == Head(changes)
             index == index_where_repo_path(metadata, change.relative_path)
         IN IF index = 0
            THEN discard_loop(Tail(changes), metadata, sysfiles, mirror, should_persist)
            ELSE LET file_data == metadata[index]
                 IN CASE change.status = "new" ->
                           discard_loop(Tail(changes),
                               remove_index(metadata, position(metadata, file_data.system_path)),
                               sysfiles, mirror, TRUE)
                      [] change.status = "modified" ->
                           IF \/ mirror[file_data.repo_path] = Absent
                              \/ file_data.encrypted /\ ~IsCiphertext(mirror[file_data.repo_path])
                           THEN [ok |-> FALSE, metadata |-> metadata, sys |-> sysfiles,
                                 should_persist |-> should_persist]
                           ELSE discard_loop(Tail(changes), metadata,
                                   [sysfiles EXCEPT ![file_data.system_path] =
                                       IF file_data.encrypted
                                       THEN Decrypt(mirror[file_data.repo_path])
                                       ELSE mirror[file_data.repo_path]],
                                   mirror, should_persist)
                      [] change.status = "deleted" ->
                           discard_loop(Tail(changes),
                               add_file_to_metadata(metadata, file_data),
                               sysfiles, mirror, TRUE)
                      [] OTHER ->
                           discard_loop(Tail(changes), metadata, sysfiles, mirror,
                                        should_persist)

\* the changes the user is asked about: those of a tracked mirror file
discardable(metadata) ==
    {status_changes[k].relative_path : k \in
        {j \in 1..Len(status_changes) :
            index_where_repo_path(metadata, status_changes[j].relative_path) # 0}}

Discard(confirmed) ==
    /\ UNCHANGED <<call, ret, origin>>
    /\ confirmed \subseteq discardable(Store)
    /\ LET confirmed_changes_to_reset ==
               SelectSeq(status_changes, LAMBDA change : change.relative_path \in confirmed)
           mirror == reset(confirmed_changes_to_reset, repo)
           r == discard_loop(confirmed_changes_to_reset, Store, sys, mirror, FALSE)
       IN /\ Len(r.metadata) <= MaxStore
          /\ Step("command", "discard", IF r.ok THEN "done" ELSE "error")
          /\ repo' = mirror
          /\ sys' = r.sys
          /\ IF r.ok /\ r.should_persist
             THEN /\ store' = persist_metadata(r.metadata)
                  /\ cache' = write_cache(r.metadata, cache)
             ELSE UNCHANGED <<store, cache>>
    /\ UNCHANGED <<heads, branch, clock, verdict>>
    /\ KeepResolved
    /\ KeepDropped

(* -------------------------- ops/collect.rs ----------------------------- *)

\* the length of a file; the contents of the model all differ in length
Size(c) == c

\* std::fs::metadata of a file: its length and its modification time
FileMetadata(len, modified) == [len |-> len, modified |-> modified]

\* a detector that looks at the modification times alone
modified_after(source_metadata, dest_metadata) ==
    source_metadata.modified > dest_metadata.modified

\* the comparison of source_was_updated: a different length, or else a source
\* modified after the destination
metadata_differs(source_metadata, dest_metadata) ==
    IF source_metadata.len # dest_metadata.len THEN TRUE
    ELSE IF source_metadata.modified > dest_metadata.modified THEN TRUE
    ELSE FALSE

\* source_was_updated, both files existing (newer: the system paths whose file
\* has the later modification time)
source_was_updated(sysfiles, mirror, file, newer) ==
    metadata_differs(
        FileMetadata(Size(sysfiles[file.system_path]),
                     IF file.system_path \in newer THEN 1 ELSE 0),
        FileMetadata(Size(mirror[file.repo_path]), 0))

\* the loop of CollectOp::run over the selected entries; confirmed: the system
\* paths the user agrees to (all of them with no_confirm)
RECURSIVE collect_loop(_, _, _, _)
collect_loop(files, mirror, confirmed, newer) ==
    IF files = <<>> THEN [ok |-> TRUE, repo |-> mirror]
    ELSE LET file == Head(files)
         IN IF sys[file.system_path] = Absent \/ mirror[file.repo_path] = Absent
            THEN [ok |-> FALSE, repo |-> mirror]
            ELSE IF ~source_was_updated(sys, mirror, file, newer)
            THEN collect_loop(Tail(files), mirror, confirmed, newer)
            ELSE IF file.system_path \in confirmed
            THEN collect_loop(Tail(files), copy_managed_file(mirror, sys, file),
                              confirmed, newer)
            ELSE collect_loop(Tail(files), mirror, confirmed, newer)

\* a collect that writes the narrowed list of files back to the Store
CollectPersistingSelection(selected, confirmed, newer) ==
    /\ UNCHANGED <<call, ret, origin>>
    /\ LET files == SelectSeq(Store, LAMBDA file : file.system_path \in selected)
           r == collect_loop(files, repo, confirmed, newer)
       IN /\ Step("command", "collect", IF r.ok THEN "done" ELSE "error")
          /\ repo' = r.repo
          /\ store' = IF r.ok THEN persist_metadata(files) ELSE store
    /\ UNCHANGED <<cache, sys, heads, branch, clock, verdict>>
    /\ KeepResolved
    /\ KeepDropped

Collect(selected, confirmed, newer) ==
    /\ UNCHANGED <<call, ret, origin>>
    /\ LET files == SelectSeq(Store, LAMBDA file : file.system_path \in selected)
           r == collect_loop(files, repo, confirmed, newer)
       IN /\ Step("command", "collect", IF r.ok THEN "done" ELSE "error")
          /\ repo' = r.repo
    /\ UNCHANGED <<store, cache, sys, heads, branch, clock, verdict>>
    /\ KeepResolved
    /\ KeepDropped

(* --------------------------- ops/edit.rs ------------------------------- *)

\* EditOp::run: the editor leaves content c in the system file of a tracked
\* path, and the mirror file follows unless skip_update or no update is seen
Edit(path, c, skip_update, newer) ==
    /\ UNCHANGED <<call, ret, origin>>
    /\ LET index == position(Store, path)
           edited == [sys EXCEPT ![path] = c]
       IN IF index = 0
          THEN /\ Step("command", "edit", "return")
               /\ UNCHANGED <<sys, repo>>
          ELSE /\ sys' = edited
               /\ IF skip_update
                  THEN /\ Step("command", "edit", "return")
                       /\ UNCHANGED repo
                  ELSE IF repo[Store[index].repo_path] = Absent
                  THEN /\ Step("command", "edit", "error")
                       /\ UNCHANGED repo
                  ELSE IF ~source_was_updated(edited, repo, Store[index], newer)
                  THEN /\ Step("command", "edit", "return")
                       /\ UNCHANGED repo
                  ELSE /\ Step("command", "edit", "done")
                       /\ repo' = copy_managed_file(repo, edited, Store[index])
    /\ UNCHANGED <<store, cache, heads, branch, clock, verdict>>
    /\ KeepResolved
    /\ KeepDropped

(* --------------------------- ops/apply.rs ------------------------------ *)

\* copy_from_repo: the mirror file is copied to the system path, decrypted
\* first for an encrypted entry; a missing mirror file, a mirror file that is
\* no ciphertext and a passphrase other than the one it was encrypted with
\* are errors that leave the system path as it was
copy_from_repo(sysfiles, mirror, file_data, passphrase) ==
    IF mirror[file_data.repo_path] = Absent
    THEN [ok |-> FALSE, sys |-> sysfiles]
    ELSE IF ~file_data.encrypted
    THEN [ok |-> TRUE,
          sys |-> copy_unencrypted(mirror, file_data.repo_path,
                                   sysfiles, file_data.system_path)]
    ELSE IF ~IsCiphertext(mirror[file_data.repo_path])
            \/ passphrase # EncryptionPassphrase
    THEN [ok |-> FALSE, sys |-> sysfiles]
    ELSE [ok |-> TRUE,
          sys |-> [sysfiles EXCEPT ![file_data.system_path] =
                        Decrypt(mirror[file_data.repo_path])]]

\* the loop of Repo::apply, which copies every mirror file as it is
RECURSIVE apply_loop_plain_copy(_, _, _, _)
apply_loop_plain_copy(files, sysfiles, confirmed, passphrase) ==
    IF files = <<>> THEN [ok |-> TRUE, sys |-> sysfiles]
    ELSE LET file_data == Head(files)
         IN IF file_data.system_path \notin confirmed
            THEN apply_loop_plain_copy(Tail(files), sysfiles, confirmed, passphrase)
            ELSE IF repo[file_data.repo_path] = Absent
            THEN [ok |-> FALSE, sys |-> sysfiles]
            ELSE apply_loop_plain_copy(Tail(files),
                    copy_unencrypted(repo, file_data.repo_path,
                                     sysfiles, file_data.system_path),
                    confirmed, passphrase)

\* the loop of ApplyOp::run: the mirror file of each confirmed entry is copied
\* (decrypted for an encrypted entry) to its system path, and the first copy
\* that fails ends the loop
RECURSIVE apply_loop(_, _, _, _)
apply_loop(files, sysfiles, confirmed, passphrase) ==
    IF files = <<>> THEN [ok |-> TRUE, sys |-> sysfiles]
    ELSE LET file_data == Head(files)
         IN IF file_data.system_path \notin confirmed
            THEN apply_loop(Tail(files), sysfiles, confirmed, passphrase)
            ELSE LET copied == copy_from_repo(sysfiles, repo, file_data, passphrase)
                 IN IF ~copied.ok THEN [ok |-> FALSE, sys |-> sysfiles]
                    ELSE apply_loop(Tail(files), copied.sys, confirmed, passphrase)

\* passphrase: what the configuration holds at this invocation
Apply(selected, confirmed, passphrase) ==
    /\ UNCHANGED <<call, ret, origin>>
    /\ IF check_has_unsaved
       THEN /\ Step("command", "apply", "return")
            /\ UNCHANGED sys
       ELSE LET files == SelectSeq(Store, LAMBDA file : file.system_path \in selected)
                r == apply_loop(files, sys, confirmed, passphrase)
            IN /\ Step("command", "apply", IF r.ok THEN "done" ELSE "error")
               /\ sys' = r.sys
    /\ UNCHANGED <<store, cache, repo, heads, branch, clock, verdict>>
    /\ KeepResolved
    /\ KeepDropped

(* ---------------------- ops/status.rs, ops/list.rs --------------------- *)

\* StatusOp::run prints the status changes
Status ==
    /\ UNCHANGED <<call, ret, origin>>
    /\ Step("command", "status", IF status_changes = <<>> THEN "return" ELSE "done")
    /\ UNCHANGED <<store, cache, sys, repo, heads, branch, clock, verdict>>
    /\ KeepResolved
    /\ KeepDropped

\* ListOp::run prints the entries of the Store
List ==
    /\ UNCHANGED <<call, ret, origin>>
    /\ Step("command", "list", "done")
    /\ UNCHANGED <<store, cache, sys, repo, heads, branch, clock, verdict>>
    /\ KeepResolved
    /\ KeepDropped

(* ---------------------------- environment ------------------------------ *)

\* a second passes
Tick ==
    /\ UNCHANGED <<call, ret, origin>>
    /\ Idle
    /\ clock < MaxClock
    /\ clock' = clock + 1
    /\ UNCHANGED <<store, cache, sys, repo, heads, branch, verdict, resolved, dropped,
                   trace, runs>>

\* the user writes a system file (creating it when it is missing) or deletes it
EditSystemFile(p, c) ==
    /\ UNCHANGED <<call, ret, origin>>
    /\ Idle
    /\ sys[p] # c
    /\ sys' = [sys EXCEPT ![p] = c]
    /\ UNCHANGED <<store, cache, repo, heads, branch, clock, verdict, resolved, dropped,
                   trace, runs>>

(* --------------------------- specification ----------------------------- *)

\* a fresh clone of an empty upstream: no documents, no mirror files
Init ==
    /\ origin = NoBranch
    /\ call = NoCall
    /\ ret = NoReturn
    /\ store = NoDoc
    /\ cache = NoDoc
    /\ sys = [p \in SysPaths |-> Original]
    /\ repo = NoFiles
    /\ heads = [b \in Branches |-> IF b = "main" THEN Commit(NoDoc, NoFiles) ELSE NoBranch]
    /\ branch = "main"
    /\ clock = 0
    /\ verdict = NoVerdict
    /\ resolved = <<>>
    /\ dropped = {}
    /\ trace = <<>>
    /\ runs = 0

Next ==
    \/ VerifyFullPopulate
    \/ VerifyDoNothing
    \/ VerifyHandleDangling
    \/ Init_Command
    \/ \E files \in Batches, encrypt \in BOOLEAN : Add(files, encrypt)
    \/ \E files \in Batches : Remove(files)
    \/ \E files \in Batches : ConmanRemove(files)
    \/ \E confirmed \in SUBSET MirrorPaths : Discard(confirmed)
    \/ Save
    \/ \E branch_name \in Branches : Checkout(branch_name)
    \/ Pull
    \/ Tick
    \/ \E p \in SysPaths, c \in Contents \cup {Absent} : EditSystemFile(p, c)

Spec == Init /\ [][Next]_vars

\* the commands that work on tracked files, with the reconciliation before
\* each; pull supplies committed files
NextFiles ==
    \/ VerifyFullPopulate
    \/ VerifyDoNothing
    \/ VerifyHandleDangling
    \/ \E files \in Batches, encrypt \in BOOLEAN : Add(files, encrypt)
    \/ \E files \in Batches : Remove(files)
    \/ \E confirmed \in SUBSET MirrorPaths : Discard(confirmed)
    \/ Pull
    \/ \E selected, confirmed, newer \in SUBSET SysPaths :
            Collect(selected, confirmed, newer)
    \/ \E path \in SysPaths, c \in Contents, skip_update \in BOOLEAN,
          newer \in SUBSET SysPaths : Edit(path, c, skip_update, newer)
    \/ \E selected, confirmed \in SUBSET SysPaths, passphrase \in Passphrases :
            Apply(selected, confirmed, passphrase)
    \/ Tick
    \/ \E p \in SysPaths, c \in Contents \cup {Absent} : EditSystemFile(p, c)

SpecFiles == Init /\ [][NextFiles]_vars

\* the commands that only read the Store, with add and pull to fill it
NextReadOnly ==
    \/ VerifyFullPopulate
    \/ VerifyDoNothing
    \/ VerifyHandleDangling
    \/ \E files \in Batches, encrypt \in BOOLEAN : Add(files, encrypt)
    \/ Pull
    \/ Save
    \/ \E selected, confirmed \in SUBSET SysPaths, newer \in {{}, SysPaths} :
            Collect(selected, confirmed, newer)
    \/ \E path \in SysPaths, skip_update \in BOOLEAN, newer \in {{}, SysPaths} :
            Edit(path, Edited, skip_update, newer)
    \/ \E selected, confirmed \in SUBSET SysPaths :
            Apply(selected, confirmed, EncryptionPassphrase)
    \/ Status
    \/ List
    \/ Tick
    \/ \E p \in SysPaths : EditSystemFile(p, Edited)

SpecReadOnly == Init /\ [][NextReadOnly]_vars

\* the commands that wait for a saved working tree, with add, save and the
\* user's edits to make and to save changes
NextUnsaved ==
    \/ VerifyFullPopulate
    \/ VerifyDoNothing
    \/ VerifyHandleDangling
    \/ \E files \in Batches, encrypt \in BOOLEAN : Add(files, encrypt)
    \/ Save
    \/ Pull
    \/ Push
    \/ \E selected, confirmed \in SUBSET SysPaths, passphrase \in Passphrases :
            Apply(selected, confirmed, passphrase)
    \/ \E p \in SysPaths, c \in Contents \cup {Absent} : EditSystemFile(p, c)

SpecUnsaved == Init /\ [][NextUnsaved]_vars

\* add and remove alone (every invocation reconciles first); without the
\* repository commands the Snapshot is never empty beside a non-empty Store
NextAddRemove ==
    \/ VerifyDoNothing
    \/ VerifyHandleDangling
    \/ \E files \in Batches, encrypt \in BOOLEAN : Add(files, encrypt)
    \/ \E files \in Batches : Remove(files)
    \/ \E files \in Batches : ConmanRemove(files)
    \/ Tick
    \/ \E p \in SysPaths, c \in Contents \cup {Absent} : EditSystemFile(p, c)

SpecAddRemove == Init /\ [][NextAddRemove]_vars

\* the verdict function on its own: any Store against any Snapshot
Entries == {FileData(p, rp, e) : p \in SysPaths, rp \in MirrorPaths, e \in BOOLEAN}
Docs == {NoDoc} \cup {Doc(files) : files \in UNION {[1..n -> Entries] : n \in 0..MaxDoc}}

InitVerdict ==
    /\ origin = NoBranch
    /\ call = NoCall
    /\ ret = NoReturn
    /\ store \in Docs
    /\ cache \in Docs
    /\ sys = [p \in SysPaths |-> Original]
    /\ repo = NoFiles
    /\ heads = [b \in Branches |-> IF b = "main" THEN Commit(NoDoc, NoFiles) ELSE NoBranch]
    /\ branch = "main"
    /\ clock = 0
    /\ verdict = NoVerdict
    /\ resolved = <<>>
    /\ dropped = {}
    /\ trace = <<>>
    /\ runs = 0

\* a verify_cache that populates the Snapshot itself when it finds none
ComputeVerdictAndPopulate ==
    /\ UNCHANGED <<call, ret, origin>>
    /\ verdict = NoVerdict
    /\ verdict' = verify_cache(Store, Snapshot)
    /\ cache' = IF verify_cache(Store, Snapshot) = FullPopulate
                THEN write_cache(Store, cache)
                ELSE cache
    /\ UNCHANGED <<store, sys, repo, heads, branch, clock, resolved, dropped,
                   trace, runs>>

\* FileManager::verify_cache, which reads both documents and writes neither
ComputeVerdict ==
    /\ UNCHANGED <<call, ret, origin>>
    /\ verdict = NoVerdict
    /\ verdict' = verify_cache(Store, Snapshot)
    /\ UNCHANGED <<store, cache, sys, repo, heads, branch, clock, resolved, dropped,
                   trace, runs>>

\* the verdict computed a second time on the same pair of documents
ComputeVerdictAgain ==
    /\ verdict # NoVerdict
    /\ ~ret.returned
    /\ call' = [fn |-> "verify_cache"]
    /\ UNCHANGED origin
    /\ ret' = [returned |-> TRUE, ok |-> TRUE, value |-> verify_cache(Store, Snapshot)]
    /\ UNCHANGED <<store, cache, sys, repo, heads, branch, clock, verdict, resolved,
                   dropped, trace, runs>>

NextVerdict ==
    \/ ComputeVerdict
    \/ ComputeVerdictAgain

SpecVerdict == InitVerdict /\ [][NextVerdict]_vars

(* ----------------- functions of the program on their own --------------- *)

\* a Result: Ok with a value, or Err
Ok(value) == [returned |-> TRUE, ok |-> TRUE, value |-> value]
Err(error) == [returned |-> TRUE, ok |-> FALSE, error |-> error]

\* File::open of a document: it opens, there is no such file, or the file may
\* not be opened
OpenOutcomes == {"ok", "not_found", "permission_denied"}

\* read_to_string and toml::from_str of an opened document: both succeed, the
\* read fails, or the text is no document
TextOutcomes == {"ok", "read_error", "malformed"}

\* FileManager::read_metadata with the failures of the file system: every
\* error of File::open gives the default, the errors after it are returned
read_metadata_file(open, text, files) ==
    IF open = "ok"
    THEN IF text = "read_error" THEN Err("io")
         ELSE IF text = "malformed" THEN Err("toml")
         ELSE Ok(files)
    ELSE Ok(<<>>)

\* BranchCache::read, written the same way
BranchCache_read(open, text, files) ==
    IF open = "ok"
    THEN IF text = "read_error" THEN Err("io")
         ELSE IF text = "malformed" THEN Err("toml")
         ELSE Ok(files)
    ELSE Ok(<<>>)

\* a has_changes that reports whether every cached file is matched
all_matched(files, metadata) ==
    \A i \in 1..Len(files) :
        \E j \in 1..Len(metadata) : metadata[j].system_path = files[i]

\* BranchCache::has_changes: some cached file has no entry with its system path
has_changes(files, metadata) ==
    \E i \in 1..Len(files) :
        ~\E j \in 1..Len(metadata) : metadata[j].system_path = files[i]

\* the longest path string looked at
MaxPathLen == 6

\* the characters of the path strings
Chars == {"/", "u", "_", "x"}

\* $HOME, and the placeholder (short for "__user_home__": no separator in it,
\* the same character at both ends)
user_home == <<"/", "u">>
USER_HOME_AMBIGUATION == <<"_", "u", "_">>

\* str::starts_with
starts_with(s, prefix) ==
    Len(s) >= Len(prefix) /\ SubSeq(s, 1, Len(prefix)) = prefix

\* str::replace: every match, from the left, matches not overlapping
RECURSIVE replace(_, _, _)
replace(s, from, to) ==
    IF Len(s) < Len(from) THEN s
    ELSE IF starts_with(s, from)
    THEN to \o replace(SubSeq(s, Len(from) + 1, Len(s)), from, to)
    ELSE <<Head(s)>> \o replace(Tail(s), from, to)

\* serialize_metadata_path
serialize_metadata_path(path) ==
    IF starts_with(path, user_home)
    THEN replace(path, user_home, USER_HOME_AMBIGUATION)
    ELSE path

\* deserialize_metadata_path
deserialize_metadata_path(path_string) ==
    IF starts_with(path_string, USER_HOME_AMBIGUATION)
    THEN replace(path_string, USER_HOME_AMBIGUATION, user_home)
    ELSE path_string

\* the absolute paths: a separator first, no empty component, no separator last
AbsolutePaths ==
    {s \in UNION {[1..n -> Chars] : n \in 1..MaxPathLen} :
        /\ s[1] = "/"
        /\ \A i \in 1..(Len(s) - 1) : ~(s[i] = "/" /\ s[i + 1] = "/")
        /\ Len(s) > 1 => s[Len(s)] # "/"}

\* the latest length and modification time looked at
MaxLen == 2
MaxStamp == 2

\* the documents read: none, an empty one, one entry
DocumentFiles == {<<>>, <<FileData("/a/x", <<0, "x">>, FALSE)>>}

\* the lists of system paths of a branch cache
CachedFiles == UNION {[1..n -> SysPaths] : n \in 0..MaxDoc}

\* the Stores has_changes is given
Metadatas ==
    UNION {[1..n -> {FileData(p, <<0, FileName(p)>>, FALSE) : p \in SysPaths}] :
              n \in 0..MaxDoc}

\* the calls looked at, one function each
Calls ==
    {[fn |-> f, open |-> o, text |-> t, files |-> d] :
        f \in {"read_metadata", "BranchCache::read"}, o \in OpenOutcomes,
        t \in TextOutcomes, d \in DocumentFiles}
    \cup {[fn |-> "serialize_metadata_path", path |-> p] : p \in AbsolutePaths}
    \cup {[fn |-> "source_was_updated", source |-> FileMetadata(sl, sm),
           dest |-> FileMetadata(dl, dm)] :
            sl \in 0..MaxLen, dl \in 0..MaxLen, sm \in 0..MaxStamp, dm \in 0..MaxStamp}
    \cup {[fn |-> "has_changes", files |-> f, metadata |-> m] :
            f \in CachedFiles, m \in Metadatas}

InitFunctions ==
    /\ origin = NoBranch
    /\ call \in Calls
    /\ ret = NoReturn
    /\ store = NoDoc
    /\ cache = NoDoc
    /\ sys = [p \in SysPaths |-> Original]
    /\ repo = NoFiles
    /\ heads = [b \in Branches |-> IF b = "main" THEN Commit(NoDoc, NoFiles) ELSE NoBranch]
    /\ branch = "main"
    /\ clock = 0
    /\ verdict = NoVerdict
    /\ resolved = <<>>
    /\ dropped = {}
    /\ trace = <<>>
    /\ runs = 0

\* the state of the commands, which no function here touches
KeepProgram ==
    UNCHANGED <<store, cache, sys, repo, heads, branch, clock, verdict, resolved,
                dropped, trace, runs, origin>>

ReadMetadata ==
    /\ call.fn = "read_metadata"
    /\ ~ret.returned
    /\ ret' = read_metadata_file(call.open, call.text, call.files)
    /\ UNCHANGED call
    /\ KeepProgram

BranchCacheRead ==
    /\ call.fn = "BranchCache::read"
    /\ ~ret.returned
    /\ ret' = BranchCache_read(call.open, call.text, call.files)
    /\ UNCHANGED call
    /\ KeepProgram

\* the path of an entry is written to the document
SerializePath ==
    /\ call.fn = "serialize_metadata_path"
    /\ ~ret.returned
    /\ ret' = Ok(serialize_metadata_path(call.path))
    /\ UNCHANGED call
    /\ KeepProgram

\* and what was written is read back
DeserializePath ==
    /\ call.fn = "serialize_metadata_path"
    /\ ret.returned
    /\ call' = [fn |-> "deserialize_metadata_path", path_string |-> ret.value,
                written |-> call.path]
    /\ ret' = Ok(deserialize_metadata_path(ret.value))
    /\ KeepProgram

SourceWasUpdated ==
    /\ call.fn = "source_was_updated"
    /\ ~ret.returned
    /\ ret' = Ok(metadata_differs(call.source, call.dest))
    /\ UNCHANGED call
    /\ KeepProgram

HasChanges ==
    /\ call.fn = "has_changes"
    /\ ~ret.returned
    /\ ret' = Ok(has_changes(call.files, call.metadata))
    /\ UNCHANGED call
    /\ KeepProgram

NextFunctions ==
    \/ ReadMetadata
    \/ BranchCacheRead
    \/ SerializePath
    \/ DeserializePath
    \/ SourceWasUpdated
    \/ HasChanges

SpecFunctions == InitFunctions /\ [][NextFunctions]_vars

(* ------------------------------ claims --------------------------------- *)

\* the latest step of main
LastEvent == trace[Len(trace)]

\* the reconciliation of the current invocation has just finished without error
AfterReconcile ==
    /\ Len(trace) = 1
    /\ trace[1].step = "reconcile"
    /\ trace[1].result = "ok"

\* what a reconciliation run now would return
VerdictNow == verify_cache(Store, Snapshot)

SystemPathsUniqueInEveryState ==
    \A i, j \in 1..Len(Store) :
        i # j => Store[i].system_path # Store[j].system_path

\* C3: once a HandleDangling verdict is resolved without error, whatever the
\* choices, and the Snapshot is rewritten, a reconciliation run right after
\* returns DoNothing.
ResolutionConverges ==
    resolved # <<>> => VerdictNow = DoNothing

\* a resolution has just put a dangling entry back under management
ManageResolutionHappened ==
    /\ AfterReconcile
    /\ resolved # <<>>
    /\ \E i \in 1..Len(resolved) :
          /\ resolved[i].choice = "manage"
          /\ is_already_managed(Store, resolved[i].file.system_path)

\* C4: the verdict is FullPopulate for an empty Snapshot beside a non-empty
\* Store, DoNothing when both are empty, and otherwise DoNothing or
\* HandleDangling(D) as D is empty or not, D being the Snapshot entries whose
\* system_path no Store entry has, in Snapshot order.
VerdictAsSpecified ==
    verdict # NoVerdict =>
        LET tracked == SystemPathsOf(Store)
            D == SelectSeq(Snapshot, LAMBDA f : f.system_path \notin tracked)
        IN verdict = IF Snapshot = <<>>
                     THEN (IF Store = <<>> THEN DoNothing ELSE FullPopulate)
                     ELSE (IF D = <<>> THEN DoNothing ELSE HandleDangling(D))

\* a verdict with two dangling entries beside a Store that tracks something else
TwoDanglingComputed ==
    /\ verdict.kind = "HandleDangling"
    /\ Len(verdict.dangling) = 2
    /\ verdict.dangling[1] # verdict.dangling[2]
    /\ Store # <<>>

\* C5: in every invocation the command runs only after the reconciliation
\* has run to completion with its verdict resolved.
ReconcileBeforeCommand ==
    \A i \in 1..Len(trace) :
        trace[i].step = "command" =>
            \E j \in 1..(i - 1) : trace[j].step = "reconcile" /\ trace[j].result = "ok"

\* a command has run in an invocation whose reconciliation resolved dangling entries
CommandAfterResolution ==
    /\ Len(trace) = 2
    /\ trace[1].op = "HandleDangling"
    /\ trace[2].op = "add"
    /\ trace[2].result = "done"

\* C6: after the reconciliation of an invocation finishes without error,
\* whatever its verdict, the Snapshot lists exactly the files of the Store.
SnapshotIsStoreAfterReconcile ==
    AfterReconcile => Snapshot = Store

\* C7: whenever the reconciler returns DoNothing, the Store and the Snapshot
\* list the same set of system paths.
DoNothingMeansAgreement ==
    (AfterReconcile /\ trace[1].op = "DoNothing") =>
        SystemPathsOf(Store) = SystemPathsOf(Snapshot)

\* C8: a file that a checkout or a pull drops from the Store is reported by
\* the reconciliation of the next invocation as a dangling entry.
DroppedFileIsReported ==
    \A p \in dropped :
        /\ VerdictNow.kind = "HandleDangling"
        /\ \E k \in 1..Len(VerdictNow.dangling) : VerdictNow.dangling[k].system_path = p

\* C9 as stated: an entry resolved with "skip" is dangling again at the next
\* reconciliation, the Store being unchanged otherwise.
SkippedEntryStaysDangling ==
    \A i \in 1..Len(resolved) :
        resolved[i].choice = "skip" =>
            /\ VerdictNow.kind = "HandleDangling"
            /\ \E k \in 1..Len(VerdictNow.dangling) : VerdictNow.dangling[k] = resolved[i].file

\* C9 as amended: an entry resolved with "skip" is not reported again; the
\* resolution rewrites the Snapshot from the Store and so forgets the entry.
SkippedEntryIsForgotten ==
    \A i \in 1..Len(resolved) :
        resolved[i].choice = "skip" =>
            \A k \in 1..Len(VerdictNow.dangling) : VerdictNow.dangling[k] # resolved[i].file

\* an entry has been skipped and the Store still does not track its file
SkipHappened ==
    /\ AfterReconcile
    /\ \E i \in 1..Len(resolved) :
          /\ resolved[i].choice = "skip"
          /\ resolved[i].file.system_path \notin SystemPathsOf(Store)

\* the entries of the latest resolution that were resolved with "manage"
Managed == {i \in 1..Len(resolved) : resolved[i].choice = "manage"}

LastManagedInto(rs, rp) ==
    rs[CHOOSE i \in 1..Len(rs) :
          /\ rs[i].choice = "manage"
          /\ rs[i].file.repo_path = rp
          /\ \A j \in (i + 1)..Len(rs) :
                ~(rs[j].choice = "manage" /\ rs[j].file.repo_path = rp)].file

EntriesOf(metadata, p) ==
    {metadata[k] : k \in {j \in 1..Len(metadata) : metadata[j].system_path = p}}

\* the next state's Store and Snapshot, and what a reconciliation would return there
StoreNext == read_metadata(store')
SnapshotNext == read_metadata(cache')
VerdictNext == verify_cache(StoreNext, SnapshotNext)

\* a reconciliation step has just resolved dangling entries without error
ResolutionStep ==
    /\ trace' # trace
    /\ Len(trace') = 1
    /\ trace'[1].op = "HandleDangling"
    /\ trace'[1].result = "ok"

\* C11: when a step drops a file from the Store, the dangling entry that the
\* next reconciliation offers for it carries the encryption flag the file
\* had in the Store, and "manage" re-adds the file with the flag of the
\* dangling entry.
DanglingCarriesLastFlag ==
    [][/\ \A p \in SystemPathsOf(Store) \ SystemPathsOf(StoreNext) :
            \A k \in 1..Len(VerdictNext.dangling) :
                VerdictNext.dangling[k].system_path = p =>
                    \A e \in EntriesOf(Store, p) :
                        VerdictNext.dangling[k].encrypted = e.encrypted
       /\ ResolutionStep =>
            \A i \in {k \in 1..Len(resolved') : resolved'[k].choice = "manage"} :
                \E e \in EntriesOf(StoreNext, resolved'[i].file.system_path) :
                    e.encrypted = resolved'[i].file.encrypted]_vars
\* the command of the current invocation has just returned Ok
ReturnedOk(ops) ==
    /\ trace # <<>>
    /\ LastEvent.step = "command"
    /\ LastEvent.op \in ops
    /\ LastEvent.result \in {"done", "return"}

\* C12: after an add, remove or discard that returns success the Snapshot
\* lists the files of the persisted Store, and a reconciliation run right
\* after returns DoNothing.
SnapshotFollowsCommand ==
    ReturnedOk({"add", "remove", "conman_remove", "discard"}) =>
        /\ SystemPathsOf(Snapshot) = SystemPathsOf(Store)
        /\ VerdictNow = DoNothing
\* the step that has just been taken returned Ok
StepReturnedOk == trace'[Len(trace')].result \in {"done", "return"}

\* C13: after an add over a batch returns success every path of the batch is
\* tracked in the persisted Store, the newly added ones with the flag of the
\* batch.
AddTracksWholeBatch ==
    [][\A files \in Batches, encrypt \in BOOLEAN :
          (Add(files, encrypt) /\ StepReturnedOk) =>
              \A i \in 1..Len(files) :
                  /\ is_already_managed(StoreNext, files[i])
                  /\ ~is_already_managed(Store, files[i]) =>
                        \E e \in EntriesOf(StoreNext, files[i]) : e.encrypted = encrypt]_vars
\* C14 as stated: add for a single system path that is already tracked
\* returns success and changes neither the Store document, nor any mirror
\* file, nor the Snapshot document.
AddOfTrackedPathSucceedsAsNoOp ==
    [][\A p \in SysPaths, encrypt \in BOOLEAN :
          (Add(<<p>>, encrypt) /\ p \in SystemPathsOf(Store)) =>
              /\ StepReturnedOk
              /\ store' = store
              /\ repo' = repo
              /\ cache' = cache]_vars

\* C14 as amended: add for a single tracked system path changes neither the
\* Store document, nor any mirror file, nor the Snapshot document; it returns
\* success when the system file exists and an error when it is missing.
AddOfTrackedPathIsNoOp ==
    [][\A p \in SysPaths, encrypt \in BOOLEAN :
          (Add(<<p>>, encrypt) /\ p \in SystemPathsOf(Store)) =>
              /\ StepReturnedOk <=> sys[p] # Absent
              /\ ~StepReturnedOk => trace'[Len(trace')].result = "error"
              /\ store' = store
              /\ repo' = repo
              /\ cache' = cache]_vars

\* an add has returned at a tracked path while the Snapshot lacks a file of
\* the Store, and has left it so
AddReturnedBesideStaleSnapshot ==
    /\ trace # <<>>
    /\ LastEvent.op = "add"
    /\ LastEvent.result = "return"
    /\ Store # <<>>
    /\ SystemPathsOf(Snapshot) # SystemPathsOf(Store)
\* the system paths a batch names
PathsOf(files) == {files[i] : i \in 1..Len(files)}

\* the entries of a metadata list that track none of the given paths, in order
Outside(metadata, paths) == SelectSeq(metadata, LAMBDA e : e.system_path \notin paths)

\* C15: after a remove over a batch of tracked paths returns success, no path
\* of the batch is tracked in the persisted Store, the mirror file of each
\* removed entry is deleted, and the entries of the other paths are as they
\* were, in the same order.
RemoveUntracksBatch ==
    [][\A files \in Batches :
          ((Remove(files) \/ ConmanRemove(files)) /\ StepReturnedOk
              /\ PathsOf(files) \subseteq SystemPathsOf(Store)) =>
              /\ PathsOf(files) \cap SystemPathsOf(StoreNext) = {}
              /\ \A p \in PathsOf(files) :
                    \A e \in EntriesOf(Store, p) : repo'[e.repo_path] = Absent
              /\ Outside(StoreNext, PathsOf(files)) = Outside(Store, PathsOf(files))]_vars
\* C16: a remove over a batch that names an untracked path still returns
\* success, and the tracked paths of the batch, before or after the untracked
\* one, leave the persisted Store together with their mirror files.
RemoveSkipsUntrackedPath ==
    [][\A files \in Batches :
          ((Remove(files) \/ ConmanRemove(files))
              /\ ~(PathsOf(files) \subseteq SystemPathsOf(Store))) =>
              /\ StepReturnedOk
              /\ PathsOf(files) \cap SystemPathsOf(StoreNext) = {}
              /\ \A p \in PathsOf(files) :
                    \A e \in EntriesOf(Store, p) : repo'[e.repo_path] = Absent]_vars
\* main has just taken a step that ended in an error
StepFailed ==
    /\ trace' # trace \/ runs' # runs
    /\ trace'[Len(trace')].result \in {"error", "panic"}

MirrorImage(file) ==
    IF file.encrypted THEN Encrypt(sys[file.system_path]) ELSE sys[file.system_path]

\* C18: a collect over several tracked files goes on after a failure on one
\* of them: every confirmed file of the batch whose system file and mirror
\* file exist and differ in length is copied to its mirror path, whatever
\* happened to the files before it.
CollectContinuesAfterFailure ==
    [][\A selected, confirmed, newer \in SUBSET SysPaths :
          Collect(selected, confirmed, newer) =>
              \A i \in 1..Len(Store) :
                  LET file == Store[i]
                  IN (/\ file.system_path \in selected \cap confirmed
                      /\ sys[file.system_path] # Absent
                      /\ repo[file.repo_path] # Absent
                      /\ Size(sys[file.system_path]) # Size(repo[file.repo_path])
                      /\ \A j \in 1..Len(Store) :
                            j # i => Store[j].repo_path # file.repo_path) =>
                         repo'[file.repo_path] = MirrorImage(file)]_vars
\* C19: whatever add commands run, no two Store entries have the same
\* mirror path.
MirrorPathsUnique ==
    \A i, j \in 1..Len(Store) :
        i # j => Store[i].repo_path # Store[j].repo_path
\* main has just taken a step of a command that works on tracked files, or
\* of the reconciliation
FileCommandStep ==
    /\ trace' # trace \/ runs' # runs
    /\ trace'[Len(trace')].op \in
          {"collect", "edit", "apply", "discard", "add", "remove", "conman_remove",
           "HandleDangling", "FullPopulate", "DoNothing"}

\* C20: collect, edit, apply, discard, the reconciliation, add and remove
\* leave every file that stays tracked with the mirror path and the
\* encryption flag its Store entry had.
TrackedEntryKeepsPathAndFlag ==
    [][FileCommandStep =>
          \A p \in SystemPathsOf(Store) \cap SystemPathsOf(StoreNext) :
              EntriesOf(StoreNext, p) = EntriesOf(Store, p)]_vars

\* an add has persisted a second file, with the other flag, beside a file
\* that was tracked since an earlier second
AddBesideOlderEntry ==
    /\ trace # <<>>
    /\ LastEvent.op = "add"
    /\ LastEvent.result = "done"
    /\ Len(Store) = 2
    /\ Store[1].repo_path[1] < Store[2].repo_path[1]
    /\ Store[1].encrypted # Store[2].encrypted

\* C21: reading the Store or Snapshot document gives the empty Store for an
\* absent document only: a document that may not be opened, cannot be read or
\* cannot be parsed makes the read return an error.
ReadFailureIsAnError ==
    (call.fn \in {"read_metadata", "BranchCache::read"} /\ ret.returned) =>
        /\ call.open = "not_found" => ret = Ok(<<>>)
        /\ (\/ call.open = "permission_denied"
            \/ call.open = "ok" /\ call.text # "ok") => ~ret.ok

\* C24: a path that is written to the document and read back is the path that
\* was written, for every absolute path.
PathRoundTrips ==
    call.fn = "deserialize_metadata_path" => ret = Ok(call.written)

\* C25: the written form of a path under the home directory (the directory or
\* a descendant, by components) is the path with its leading home directory
\* replaced by the placeholder, and every other path is written as it is.
EncodeSubstitutesLeadingHomeOnly ==
    (call.fn = "serialize_metadata_path" /\ ret.returned) =>
        LET path == call.path
            under_home == path = user_home \/ starts_with(path, user_home \o <<"/">>)
        IN ret = Ok(IF under_home
                    THEN USER_HOME_AMBIGUATION
                            \o SubSeq(path, Len(user_home) + 1, Len(path))
                    ELSE path)

\* C26: the drift detector answers true for two files of different length
\* whatever their modification times, and for two files of the same length
\* exactly when the system file was modified strictly after the mirror file.
DriftDetectorComparesSizeThenTime ==
    (call.fn = "source_was_updated" /\ ret.returned) =>
        /\ call.source.len # call.dest.len => ret = Ok(TRUE)
        /\ call.source.len = call.dest.len =>
              ret = Ok(call.source.modified > call.dest.modified)

\* a system file older than its mirror file and of another length was reported
OlderSourceOfOtherLengthReported ==
    /\ call.fn = "source_was_updated"
    /\ ret = Ok(TRUE)
    /\ call.source.len # call.dest.len
    /\ call.source.modified < call.dest.modified

HasChangesWhenAllMatched ==
    (/\ call.fn = "has_changes"
     /\ ret.returned
     /\ {call.files[i] : i \in 1..Len(call.files)} \subseteq SystemPathsOf(call.metadata))
        => ret = Ok(TRUE)

\* C28: has_changes returns true exactly when some file of the branch cache
\* has no entry of the Store with its system path.
HasChangesIffSomeUnmatched ==
    (call.fn = "has_changes" /\ ret.returned) =>
        ret = Ok({call.files[i] : i \in 1..Len(call.files)}
                    \ SystemPathsOf(call.metadata) # {})

\* a branch cache with one file matched and one not was reported as changed
UnmatchedCachedFileReported ==
    /\ call.fn = "has_changes"
    /\ ret = Ok(TRUE)
    /\ Len(call.files) = 2
    /\ call.files[1] \in SystemPathsOf(call.metadata)
    /\ call.files[2] \notin SystemPathsOf(call.metadata)

\* the command was run just now and ended as given
CommandEnded(op, result) ==
    /\ trace' # trace \/ runs' # runs
    /\ trace'[Len(trace')].op = op
    /\ trace'[Len(trace')].result = result

CollectMirrorsChangedFiles ==
    [][CommandEnded("collect", "done") =>
          \A newer \in SUBSET SysPaths :
              Collect(SysPaths, SysPaths, newer) =>
              \A i \in 1..Len(Store) :
                  LET file == Store[i]
                  IN /\ (~file.encrypted /\ source_was_updated(sys, repo, file, newer))
                            => repo'[file.repo_path] = sys[file.system_path]
                     /\ ~source_was_updated(sys, repo, file, newer)
                            => repo'[file.repo_path] = repo[file.repo_path]]_vars

\* C30: after an apply of all tracked files without confirmation returns
\* success on a repository without unsaved changes, the system file of every
\* unencrypted tracked file holds the content of its mirror file, and no
\* mirror file has changed.
ApplyRestoresUnencryptedFiles ==
    [][(CommandEnded("apply", "done") /\ ~check_has_unsaved) =>
          \A passphrase \in Passphrases :
              Apply(SysPaths, SysPaths, passphrase) =>
                  /\ \A i \in 1..Len(Store) :
                        ~Store[i].encrypted =>
                            sys'[Store[i].system_path] = repo[Store[i].repo_path]
                  /\ repo' = repo]_vars

\* an apply has restored an unencrypted tracked file that was edited or deleted
ApplyRestoredChangedFile ==
    /\ trace # <<>>
    /\ LastEvent.op = "apply"
    /\ LastEvent.result = "done"
    /\ \E i \in 1..Len(Store) :
          /\ ~Store[i].encrypted
          /\ sys[Store[i].system_path] = repo[Store[i].repo_path]
          /\ repo[Store[i].repo_path] # Absent

\* C31: after a discard of a Modified change on a tracked unencrypted file
\* returns success, the mirror file and the system file of the tracked file
\* hold the content of the last save; when that change was the only unsaved
\* one, no status change is left and the Store is unchanged.
DiscardRestoresLastSave ==
    [][CommandEnded("discard", "done") =>
          \A confirmed \in SUBSET MirrorPaths :
              Discard(confirmed) =>
                  \A k \in 1..Len(status_changes), i \in 1..Len(Store) :
                      LET change == status_changes[k]
                          saved == heads[branch].files[change.relative_path]
                      IN (/\ change.status = "modified"
                          /\ change.relative_path \in confirmed
                          /\ Store[i].repo_path = change.relative_path
                          /\ ~Store[i].encrypted) =>
                              /\ repo'[change.relative_path] = saved
                              /\ sys'[Store[i].system_path] = saved
                              /\ Len(status_changes) = 1 =>
                                    (status_changes' = <<>> /\ store' = store)]_vars

\* C32: whatever the state of the mirror working tree, the list of status
\* updates has no entry for the Store document.
StoreDocumentIsNotReported ==
    \A k \in 1..Len(status_changes) :
        status_changes[k].relative_path # MetadataPath

\* the Store document differs from the saved one beside a changed mirror file
StoreDocumentChangedBesideMirrorFile ==
    /\ heads[branch].doc.exists
    /\ store # heads[branch].doc
    /\ status_changes # <<>>

\* C33: after every command that returns, with success or through an early
\* return, every entry of the persisted Store has its mirror file in the
\* mirror working tree.
StoreEntriesHaveMirrorFile ==
    (/\ trace # <<>>
     /\ LastEvent.step = "command"
     /\ LastEvent.result \in {"done", "return"}) =>
        \A i \in 1..Len(Store) : repo[Store[i].repo_path] # Absent

\* C34: when add returns success, every mirror file it has written belongs to
\* an entry of the persisted Store.
AddLeavesNoOrphanMirrorFile ==
    [][(CommandEnded("add", "done") \/ CommandEnded("add", "return")) =>
          \A rp \in MirrorPaths :
              repo'[rp] # repo[rp] =>
                  \E i \in 1..Len(StoreNext) : StoreNext[i].repo_path = rp]_vars

\* C35: with unsaved changes in the mirror repository, apply, pull and push
\* return success and do nothing: no system file is written, nothing is
\* fetched or merged, nothing is pushed, and the Store and the Snapshot stay
\* as they are.
UnsavedChangesBlockSync ==
    [][(/\ check_has_unsaved
        /\ trace' # trace \/ runs' # runs
        /\ trace'[Len(trace')].op \in {"apply", "pull", "push"}) =>
          /\ trace'[Len(trace')].result = "return"
          /\ UNCHANGED <<sys, repo, heads, branch, origin, store, cache>>]_vars

\* a pull has returned over unsaved changes after an earlier push
PullReturnedOverUnsaved ==
    /\ trace # <<>>
    /\ LastEvent.op = "pull"
    /\ LastEvent.result = "return"
    /\ check_has_unsaved
    /\ origin.born

\* C36: an apply or a collect with a selection of paths leaves the system
\* file and the mirror file of every tracked file outside the selection as
\* they were.
SelectionFramesApplyAndCollect ==
    [][/\ (\E result \in {"done", "return", "error"} : CommandEnded("collect", result)) =>
            \A selected, confirmed, newer \in SUBSET SysPaths :
                Collect(selected, confirmed, newer) =>
                    \A i \in 1..Len(Store) :
                        Store[i].system_path \notin selected =>
                            /\ sys'[Store[i].system_path] = sys[Store[i].system_path]
                            /\ repo'[Store[i].repo_path] = repo[Store[i].repo_path]
       /\ (\E result \in {"done", "return", "error"} : CommandEnded("apply", result)) =>
            \A selected, confirmed \in SUBSET SysPaths, passphrase \in Passphrases :
                Apply(selected, confirmed, passphrase) =>
                    \A i \in 1..Len(Store) :
                        Store[i].system_path \notin selected =>
                            /\ sys'[Store[i].system_path] = sys[Store[i].system_path]
                            /\ repo'[Store[i].repo_path] = repo[Store[i].repo_path]]_vars

\* C37: apply, collect, edit, list, status and save leave the persisted
\* Store document and the Snapshot document as they are, also when apply or
\* collect is given a selection.
ReadingCommandsKeepDocuments ==
    [][(/\ trace' # trace \/ runs' # runs
        /\ trace'[Len(trace')].step = "command"
        /\ trace'[Len(trace')].op \in
              {"apply", "collect", "edit", "list", "status", "save"}) =>
          /\ store' = store
          /\ cache' = cache]_vars

\* a collect has copied one drifted file and left another drifted file of the
\* Store alone (it was not selected)
CollectOverPartOfStore ==
    /\ trace # <<>>
    /\ LastEvent.op = "collect"
    /\ LastEvent.result = "done"
    /\ \E i, j \in 1..Len(Store) :
          /\ Store[i].repo_path # Store[j].repo_path
          /\ sys[Store[i].system_path] = Edited
          /\ repo[Store[i].repo_path] = Edited
          /\ sys[Store[j].system_path] = Edited
          /\ repo[Store[j].repo_path] = Original

\* C38: collect is idempotent: after a collect without confirmation returns
\* success, a second collect of the same files with no change to a system
\* file in between reports no file as changed and writes no mirror file, for
\* unencrypted and for encrypted tracked files.
CollectIsIdempotent ==
    [][CommandEnded("collect", "done") =>
          \A selected, newer \in SUBSET SysPaths :
              Collect(selected, SysPaths, newer) =>
              LET files == SelectSeq(Store, LAMBDA file : file.system_path \in selected)
                  again == collect_loop(files, repo', SysPaths, {})
              IN /\ \A k \in 1..Len(files) :
                        ~source_was_updated(sys', repo', files[k], {})
                 /\ again.ok
                 /\ again.repo = repo']_vars
====
